---- MODULE Spec2Model ----
(***************************************************************************)
(* Model of the Mayo Clinic content validator backend: the FastAPI         *)
(* handlers and background tasks of backend/main.py, the LangGraph         *)
(* pipeline of backend/pipeline/graph.py with its per-field reducers       *)
(* (backend/pipeline/state.py), the triage and check agents, and the       *)
(* Postgres row written by backend/db.py.                                  *)
(*                                                                         *)
(* One run identity (Vid) is modelled; every store of the program is a     *)
(* dictionary keyed by the run identity, modelled as a function whose      *)
(* domain is a subset of {Vid}.  Scores are integers in thousandths.       *)
(***************************************************************************)
EXTENDS Integers, Sequences, FiniteSets, TLC

(* ----------------------------- bounds --------------------------------- *)

\* number of decide calls that may be accepted for the run
MaxDecides == 2

\* number of process restarts
MaxRestarts == 1

\* number of failing calls to the durable store
MaxDbFailures == 1

\* number of clients that may subscribe to the events of the run
MaxSubscribers == 2

\* number of decide calls handled while clients subscribe or read the state
MaxStreamDecides == 1

\* length of the findings lists the aggregate step is applied to
MaxFindings == 4

\* length of the agents_to_run lists the dispatcher is given
MaxRouted == 2

(* --------------------------- basic values ----------------------------- *)

Vid == "v1"

\* Python None / Optional values: the empty set is None, {x} is the value x
None == {}

Some(x) == {x}

Get(opt) == CHOOSE x \in opt : TRUE

\* "None" as a string-typed optional (human_decision, human_feedback, ...)
NoneStr == "None"

SeqToSet(s) == {s[i] : i \in 1..Len(s)}

RECURSIVE FilterSeq(_, _)
FilterSeq(s, keep) ==
    IF s = <<>> THEN <<>>
    ELSE IF s[1] \in keep THEN <<s[1]>> \o FilterSeq(Tail(s), keep)
         ELSE FilterSeq(Tail(s), keep)

(* ------------------- binary64 floating point numbers ------------------ *)

\* Scores are Python floats.  A non-negative float below 8 is modelled exactly, as
\* the natural number of its units of 2^-64, written in base 2^15 with the least
\* significant digit first and no leading zero digit (0 is the empty sequence).
\* Every float from 2^-12 up is a whole number of such units.
Base == 32768

\* The operations on these numbers are functions: their arguments are numbers, not
\* expressions, wherever they are applied.
Pow2[n \in Nat] == IF n = 0 THEN 1 ELSE 2 * Pow2[n - 1]

BigNorm[a \in Seq(Nat)] ==
    IF a = <<>> THEN <<>>
    ELSE IF a[Len(a)] = 0 THEN BigNorm[SubSeq(a, 1, Len(a) - 1)]
    ELSE a

BigAddCarry[a \in Seq(Nat), b \in Seq(Nat), carry \in Nat] ==
    IF a = <<>> /\ b = <<>> THEN (IF carry = 0 THEN <<>> ELSE <<carry>>)
    ELSE LET x == IF a = <<>> THEN 0 ELSE a[1]
             y == IF b = <<>> THEN 0 ELSE b[1]
             t == x + y + carry
         IN  <<t % Base>> \o BigAddCarry[IF a = <<>> THEN <<>> ELSE Tail(a),
                                         IF b = <<>> THEN <<>> ELSE Tail(b),
                                         t \div Base]

BigAdd[a \in Seq(Nat), b \in Seq(Nat)] == BigNorm[BigAddCarry[a, b, 0]]

\* a * k for a natural k up to 2^15
BigMulCarry[a \in Seq(Nat), k \in Nat, carry \in Nat] ==
    IF a = <<>> THEN (IF carry = 0 THEN <<>> ELSE <<carry>>)
    ELSE LET t == a[1] * k + carry
         IN  <<t % Base>> \o BigMulCarry[Tail(a), k, t \div Base]

BigMul[a \in Seq(Nat), k \in Nat] == BigNorm[BigMulCarry[a, k, 0]]

\* a quotient and remainder
QuotRem == [q : Seq(Nat), r : Nat]

\* the quotient res.q with one more digit at its high end
PutDigit[res \in QuotRem, digit \in Nat] ==
    [q |-> res.q \o <<digit>>, r |-> res.r]

\* quotient and remainder of a by a natural d with 0 < d <= 2^15, from the most
\* significant digit down
BigDivRem[a \in Seq(Nat), d \in Nat, rem \in Nat] ==
    IF a = <<>> THEN [q |-> <<>>, r |-> rem]
    ELSE LET t == rem * Base + a[Len(a)]
         IN  PutDigit[BigDivRem[SubSeq(a, 1, Len(a) - 1), d, t % d], t \div d]

NormQuotient[res \in QuotRem] == [q |-> BigNorm[res.q], r |-> res.r]

BigDiv[a \in Seq(Nat), d \in Nat] == NormQuotient[BigDivRem[a, d, 0]]

BitsOf[n \in Nat] == IF n = 0 THEN 0 ELSE 1 + BitsOf[n \div 2]

BitLen(a) == IF a = <<>> THEN 0 ELSE 15 * (Len(a) - 1) + BitsOf[a[Len(a)]]

IsOdd(a) == a # <<>> /\ a[1] % 2 = 1

\* the quotient ml.q of the first 53 bits of a quotient by 2^s, rounded to the
\* nearest and on a tie to the even one, as units again; r is what the division
\* by d left
RoundUp[ml \in QuotRem, r \in Nat, d \in Nat, s \in Nat] ==
    LET up == IF s = 0
              THEN 2 * r > d \/ (2 * r = d /\ IsOdd(ml.q))
              ELSE \/ ml.r > Pow2[s - 1]
                   \/ (ml.r = Pow2[s - 1] /\ (r > 0 \/ IsOdd(ml.q)))
    IN  BigMul[BigAdd[ml.q, IF up THEN <<1>> ELSE <<>>], Pow2[s]]

\* the quotient qr of n by d rounded at s bits above its lowest
RoundAt[qr \in QuotRem, d \in Nat, s \in Nat] ==
    RoundUp[BigDiv[qr.q, Pow2[s]], qr.r, d, s]

\* The float nearest to n / d units, ties to the even significand: the rounding of
\* every IEEE 754 operation to 53 significant bits.
RoundToFloat[n \in Seq(Nat), d \in Nat] ==
    LET qr == BigDiv[n, d]
    IN  RoundAt[qr, d, IF BitLen(qr.q) > 53 THEN BitLen(qr.q) - 53 ELSE 0]

\* 2^64 units: the float 1.0
FloatOne == <<0, 0, 0, 0, 16>>

\* the float a score of k thousandths is held as: the one nearest to k / 1000
FloatOfThousandths[k \in Nat] == RoundToFloat[BigMul[FloatOne, k], 1000]

\* x + y: adding 0.0 is exact, every other sum is rounded
float_add[x \in Seq(Nat), y \in Seq(Nat)] ==
    IF x = <<>> THEN y
    ELSE IF y = <<>> THEN x
    ELSE RoundToFloat[BigAdd[x, y], 1]

\* x / n for a float x and a positive integer n
float_div[x \in Seq(Nat), n \in Nat] == IF x = <<>> THEN <<>> ELSE RoundToFloat[x, n]

\* sum(...) of floats: the items are added from left to right, starting from 0
float_sum[acc \in Seq(Nat), xs \in Seq(Seq(Nat))] ==
    IF xs = <<>> THEN acc ELSE float_sum[float_add[acc, xs[1]], Tail(xs)]

Digit(a, i) == IF i <= Len(a) THEN a[i] ELSE 0

\* the multiple of 0.001 nearest to t / 1000 units, ties to the even multiple
RoundThousandths[t \in Seq(Nat)] ==
    LET whole == (Digit(t, 5) \div 16) + 2048 * Digit(t, 6)
        top == Digit(t, 5) % 16
        below == \E i \in 1..4 : Digit(t, i) # 0
        up == \/ top > 8
              \/ (top = 8 /\ below)
              \/ (top = 8 /\ ~below /\ whole % 2 = 1)
    IN  IF up THEN whole + 1 ELSE whole

\* round(x, 3), in thousandths: the multiple of 0.001 nearest to the exact value of
\* the float x
round3[x \in Seq(Nat)] == RoundThousandths[BigMul[x, 1000]]

(* ------------------------ triage_agent.py ----------------------------- *)

ALL_STANDARD_AGENTS == <<"metadata", "editorial", "compliance", "accuracy">>

HIL_EXTRA_AGENTS == <<"empty_tag">>

HIL_URL_PATTERNS == {"healthy-lifestyle"}

\* A URL is a sequence of tokens; "pattern in url" holds when a token is the pattern
_is_hil_content(url) == \E i \in 1..Len(url) : url[i] \in HIL_URL_PATTERNS

\* a triage that dispatches every agent of the catalog whatever the URL
triage_node_all(state) ==
    [routing_decision |-> Some([agents_to_run |-> ALL_STANDARD_AGENTS \o HIL_EXTRA_AGENTS,
                                agents_skipped |-> <<>>,
                                content_type |-> "hil"]),
     skipped_agents |-> <<>>,
     status |-> "running"]

triage_node(state) ==
    LET is_hil == _is_hil_content(state.url)
        agents_to_run == IF is_hil THEN ALL_STANDARD_AGENTS \o HIL_EXTRA_AGENTS
                         ELSE ALL_STANDARD_AGENTS
        agents_skipped == IF is_hil THEN <<>> ELSE HIL_EXTRA_AGENTS
    IN  [routing_decision |-> Some([agents_to_run |-> agents_to_run,
                                    agents_skipped |-> agents_skipped,
                                    content_type |-> IF is_hil THEN "hil" ELSE "standard"]),
         skipped_agents |-> agents_skipped,
         status |-> "running"]

(* --------------------------- graph.py --------------------------------- *)

AGENT_NODE_MAP ==
    [metadata |-> "metadata_node", editorial |-> "editorial_node",
     compliance |-> "compliance_node", accuracy |-> "accuracy_node",
     empty_tag |-> "empty_tag_node"]

Agents == DOMAIN AGENT_NODE_MAP

\* a dispatcher that creates a Send for every listed name
dispatch_agents_unfiltered(state) ==
    IF state.routing_decision # None
    THEN Get(state.routing_decision).agents_to_run
    ELSE <<"metadata", "editorial", "compliance", "accuracy">>

\* the sequence of agent names for which a Send is created
dispatch_agents(state) ==
    LET agents_to_run == IF state.routing_decision # None
                         THEN Get(state.routing_decision).agents_to_run
                         ELSE <<"metadata", "editorial", "compliance", "accuracy">>
    IN  FilterSeq(agents_to_run, DOMAIN AGENT_NODE_MAP)

\* the scores, given in thousandths, as the floats they are held as
ScoreFloats[scores \in Seq(Nat)] ==
    IF scores = <<>> THEN <<>>
    ELSE <<FloatOfThousandths[scores[1]]>> \o ScoreFloats[Tail(scores)]

\* round(sum(f.score for f in findings) / len(findings), 3), in thousandths
MeanScore(findings) ==
    round3[float_div[float_sum[<<>>,
                               ScoreFloats[[i \in DOMAIN findings |-> findings[i].score]]],
                     Len(findings)]]

\* an aggregate step that passes the content when some finding passed
aggregate_node_any(state) ==
    LET findings == state.findings
    IN  IF findings # <<>>
        THEN [overall_score |-> Some(MeanScore(findings)),
              overall_passed |-> Some(\E i \in 1..Len(findings) : findings[i].passed),
              status |-> "awaiting_human"]
        ELSE [overall_score |-> Some(0),
              overall_passed |-> Some(FALSE),
              status |-> "awaiting_human"]

\* an aggregate step that gives up on an empty findings list
aggregate_node_partial(state) ==
    LET findings == state.findings
    IN  IF findings # <<>>
        THEN [overall_score |-> Some(MeanScore(findings)),
              overall_passed |-> Some(\A i \in 1..Len(findings) : findings[i].passed),
              status |-> "awaiting_human"]
        ELSE [overall_score |-> None,
              overall_passed |-> None,
              status |-> "failed"]

aggregate_node(state) ==
    LET findings == state.findings
    IN  IF findings # <<>>
        THEN [overall_score |-> Some(MeanScore(findings)),
              overall_passed |-> Some(\A i \in 1..Len(findings) : findings[i].passed),
              status |-> "awaiting_human"]
        ELSE [overall_score |-> Some(0),
              overall_passed |-> Some(FALSE),
              status |-> "awaiting_human"]

\* the update human_gate_node returns once interrupt() has returned human_input
human_gate_node(human_input) ==
    [human_decision |-> human_input.human_decision,
     human_feedback |-> human_input.human_feedback,
     reviewed_by |-> human_input.reviewed_by]

approve_node == [status |-> "approved"]

reject_node == [status |-> "rejected"]

route_after_human(state) ==
    IF state.human_decision = "approve" THEN "approve" ELSE "reject"

(* --------------------------- state.py --------------------------------- *)

\* reducer of agent_statuses: {**a, **b}
_merge_dicts(a, b) ==
    [k \in (DOMAIN a) \cup (DOMAIN b) |-> IF k \in DOMAIN b THEN b[k] ELSE a[k]]

\* a field without reducer: the last write replaces the value
operator_overwrite(a, b) == b

\* reducer operator.add of findings, errors and skipped_agents
operator_add(a, b) == a \o b

AgentFinding(agent, passed, score) ==
    [agent |-> agent, passed |-> passed, score |-> score]

\* Apply a node's partial update to the run state, field by field: the fields
\* declared with a reducer are reduced, every other field is overwritten.
ApplyUpdate(state, upd) ==
    [f \in DOMAIN state |->
        IF f \notin DOMAIN upd THEN state[f]
        ELSE IF f \in {"findings", "errors", "skipped_agents"}
             THEN operator_add(state[f], upd[f])
        ELSE IF f = "agent_statuses" THEN _merge_dicts(state[f], upd[f])
        ELSE upd[f]]

(* ------------------------------ agents -------------------------------- *)

\* what a check step returns: a partial update, or an exception that leaves the step
Returned(agent, passed, score) ==
    [raised |-> FALSE,
     update |-> [findings |-> <<AgentFinding(agent, passed, score)>>,
                 agent_statuses |-> (agent :> "done")]]

Raises == [raised |-> TRUE, update |-> [findings |-> <<>>]]

\* The verdict-producing call of an LLM-backed step, by its outcome:
\*   "pass"     the evaluator answers passed = true, score = 0.9
\*   "fail"     the evaluator answers passed = false, score = 0.4
\*   "high"     the evaluator answers passed = true, score = 1.5
\*   "negative" the evaluator answers passed = true, score = -0.1
\*   "error"    the call raises, or its answer is not the JSON asked for
\*   "raise"    building the evaluator (before the try block) raises
LlmOutcomes == {"pass", "fail", "high", "negative", "error", "raise"}

\* the passed and score fields of the evaluator's answer, the score in thousandths
LlmAnswer(outcome) ==
    CASE outcome = "pass" -> [passed |-> TRUE, score |-> 900]
      [] outcome = "fail" -> [passed |-> FALSE, score |-> 400]
      [] outcome = "high" -> [passed |-> TRUE, score |-> 1500]
      [] OTHER -> [passed |-> TRUE, score |-> 0 - 100]

\* a score field without its upper bound
ScoreFieldGeOnly(score) == score >= 0

\* AgentFinding.score: Field(ge=0.0, le=1.0); constructing a finding with another
\* score raises a ValidationError
ScoreField(score) == score >= 0 /\ score <= 1000

\* the try block builds the finding from the answer; the except clause builds the
\* finding of a failed step
LlmStep(agent, outcome) ==
    CASE outcome = "raise" -> Raises
      [] outcome = "error" -> Returned(agent, FALSE, 0)
      [] OTHER -> IF ScoreField(LlmAnswer(outcome).score)
                  THEN Returned(agent, LlmAnswer(outcome).passed, LlmAnswer(outcome).score)
                  ELSE Returned(agent, FALSE, 0)

run_metadata_agent(state, outcome) ==
    IF state.scraped_content = None THEN Returned("metadata", FALSE, 0)
    ELSE LlmStep("metadata", outcome)

run_editorial_agent(state, outcome) ==
    IF state.scraped_content = None THEN Returned("editorial", FALSE, 0)
    ELSE LlmStep("editorial", outcome)

run_compliance_agent(state, outcome) ==
    IF state.scraped_content = None THEN Returned("compliance", FALSE, 0)
    ELSE IF ~Get(state.scraped_content).body_text THEN Returned("compliance", FALSE, 0)
    ELSE LlmStep("compliance", outcome)

run_accuracy_agent(state, outcome) ==
    IF state.scraped_content = None THEN Returned("accuracy", FALSE, 0)
    ELSE IF ~Get(state.scraped_content).body_text THEN Returned("accuracy", FALSE, 0)
    ELSE LlmStep("accuracy", outcome)

DEDUCTION_PER_ISSUE == 50

PASS_THRESHOLD == 800

\* round(score, 2) on thousandths
Round2(x) == ((x + 5) \div 10) * 10

\* numbers of empty or self-closing tags _scan_html may find in the page
TagIssueCounts == {0, 5}

\* for empty_tag the outcome is the number of tag issues found in the raw HTML
run_empty_tag_agent(state, outcome) ==
    IF state.scraped_content = None THEN Returned("empty_tag", FALSE, 0)
    ELSE IF ~Get(state.scraped_content).raw_html THEN Returned("empty_tag", TRUE, 1000)
    ELSE IF outcome = 0 THEN Returned("empty_tag", TRUE, 1000)
    ELSE LET raw == 1000 - outcome * DEDUCTION_PER_ISSUE
             score == Round2(IF raw < 0 THEN 0 ELSE raw)
         IN  Returned("empty_tag", score >= PASS_THRESHOLD, score)

AgentOutcomes(agent) == IF agent = "empty_tag" THEN TagIssueCounts ELSE LlmOutcomes

\* the node function registered for each agent node in build_graph
RunAgentNode(agent, state, outcome) ==
    CASE agent = "metadata" -> run_metadata_agent(state, outcome)
      [] agent = "editorial" -> run_editorial_agent(state, outcome)
      [] agent = "compliance" -> run_compliance_agent(state, outcome)
      [] agent = "accuracy" -> run_accuracy_agent(state, outcome)
      [] OTHER -> run_empty_tag_agent(state, outcome)

(* ------------------------- content_fetcher.py ------------------------- *)

\* contents the scraper may return: whether body_text and raw_html are non-empty
FullContent == [body_text |-> TRUE, raw_html |-> TRUE]

Contents == {FullContent, [body_text |-> FALSE, raw_html |-> TRUE]}

fetch_content_node(state, ok, content) ==
    IF ok THEN [scraped_content |-> Some(content), status |-> "running"]
    ELSE [scraped_content |-> None, status |-> "failed",
          errors |-> <<"Failed to scrape URL">>]

(* ------------------------------ main.py ------------------------------- *)

VARIABLES
    validation_store,  \* in-memory snapshot cache: vid -> ValidationState
    sse_queues,        \* event queue registry: vid -> queued events
    emitted_agents,    \* vid -> set of agents whose agent_complete was emitted
    db,                \* the validations table: vid -> row
    checkpointer,      \* MemorySaver of the compiled graph: thread_id -> checkpoint
    loops,             \* graph invocations (astream) in progress: task -> loop
    pc,                \* position of each background task; task 0 is _run_pipeline
    reqs,              \* the accepted decide requests, each with the number of restarts
                       \* before it (epoch); task i >= 1 resumes with reqs[i]
    history,           \* every event ever enqueued for the run, in order
    response,          \* the response of the call handled by the last step: of a
                       \* submit or decide call its outcome, of a get_state call the
                       \* status in the returned snapshot or its error code; "none"
                       \* when the last step was a step of a task or of a stream
    restarts,          \* process restarts so far
    dbFailures,        \* failed durable-store calls so far
    aggregate_runs,    \* executions of aggregate_node so far
    subscribers        \* the clients of GET /stream: for each client the state of
                       \* its event stream, the queue events it has delivered and
                       \* the number of events enqueued before it attached

vars == <<validation_store, sse_queues, emitted_agents, db, checkpointer, loops, pc,
          reqs, history, response, restarts, dbFailures, aggregate_runs, subscribers>>

EmptyDict == [k \in {} |-> "done"]

\* URLs a client may submit, as token sequences
Urls == {<<"mayoclinic.org", "diseases-conditions">>,
         <<"mayoclinic.org", "healthy-lifestyle">>,
         <<"webmd.com", "diabetes">>}

\* ValidateRequest.must_be_mayo_url
must_be_mayo_url(url) == \E i \in 1..Len(url) : url[i] = "mayoclinic.org"

\* a submit body without the url field
NoUrlRequest == [requested_by |-> "web-user"]

\* the bodies of submit requests that carry one of the given URLs or none
Requests(urls) == {[url |-> u] : u \in urls} \cup {NoUrlRequest}

\* a validation that accepts every body that has a url
ValidateRequestAnyUrl(req) == "url" \in DOMAIN req

\* ValidateRequest: url is a required field and must pass must_be_mayo_url
ValidateRequest(req) == "url" \in DOMAIN req /\ must_be_mayo_url(req.url)

\* bodies of decide requests (HumanDecisionRequest)
DecideRequests ==
    {[decision |-> "approve", feedback |-> NoneStr, reviewer_id |-> NoneStr],
     [decision |-> "reject", feedback |-> "needs work", reviewer_id |-> "dr-a"]}

\* an initial state that names the submitter as reviewer
_initial_state_reviewed(url) ==
    [url |-> url,
     scraped_content |-> None,
     findings |-> <<>>,
     agent_statuses |-> EmptyDict,
     status |-> "pending",
     overall_score |-> None,
     overall_passed |-> None,
     human_decision |-> NoneStr,
     human_feedback |-> NoneStr,
     reviewed_by |-> "web-user",
     errors |-> <<>>,
     routing_decision |-> None,
     skipped_agents |-> <<>>]

_initial_state(url) ==
    [url |-> url,
     scraped_content |-> None,
     findings |-> <<>>,
     agent_statuses |-> EmptyDict,
     status |-> "pending",
     overall_score |-> None,
     overall_passed |-> None,
     human_decision |-> NoneStr,
     human_feedback |-> NoneStr,
     reviewed_by |-> NoneStr,
     errors |-> <<>>,
     routing_decision |-> None,
     skipped_agents |-> <<>>]

\* the columns db.upsert_validation writes for a state
Row(state) ==
    [url |-> state.url,
     status |-> state.status,
     overall_score |-> state.overall_score,
     overall_passed |-> state.overall_passed,
     findings |-> state.findings,
     errors |-> state.errors,
     human_decision |-> state.human_decision,
     human_feedback |-> state.human_feedback,
     reviewed_by |-> state.reviewed_by,
     routing_decision |-> state.routing_decision,
     skipped_agents |-> state.skipped_agents]

Event(type, status, agent, score, passed) ==
    [type |-> type, status |-> status, agent |-> agent, score |-> score, passed |-> passed]

StatusEvent(status) == Event("status", status, "", None, None)

\* an error event with its message, a text given as the sequence of its parts
ErrorEventOf(message) ==
    [type |-> "error", status |-> "", agent |-> "", score |-> None, passed |-> None,
     message |-> message]

\* the error event of an except clause: its message is str(e)
ErrorEvent == ErrorEventOf(<<"str(e)">>)

DoneEvent(status) == Event("done", status, "", None, None)

Count(type) == Cardinality({i \in 1..Len(history) : history[i].type = type})

\* the clients that may open the event stream of the run
Clients == 1..MaxSubscribers

\* a client that is not connected to the event stream of the run
NoSubscriber == [state |-> "none", delivered |-> <<>>, attached |-> 0]

Init ==
    /\ validation_store = <<>>
    /\ sse_queues = <<>>
    /\ emitted_agents = <<>>
    /\ db = <<>>
    /\ checkpointer = <<>>
    /\ loops = <<>>
    /\ pc = (0 :> "unsubmitted")
    /\ reqs = <<>>
    /\ history = <<>>
    /\ response = "none"
    /\ restarts = 0
    /\ dbFailures = 0
    /\ aggregate_runs = 0
    /\ subscribers = [s \in Clients |-> NoSubscriber]

\* q.put(...) for each event of evs, on the queue registered for the run
Put(evs) ==
    /\ sse_queues' = [sse_queues EXCEPT ![Vid] = @ \o evs]
    /\ history' = history \o evs

\* POST /api/validate
start_validation(req, dbOk) ==
    /\ pc[0] = "unsubmitted"
    /\ IF ~ValidateRequest(req)
       THEN /\ response' = "422"
            /\ UNCHANGED <<validation_store, sse_queues, db, pc, dbFailures>>
       ELSE /\ sse_queues' = (Vid :> <<>>)
            /\ validation_store' = (Vid :> _initial_state(req.url))
            /\ IF dbOk
               THEN /\ db' = (Vid :> Row(_initial_state(req.url)))
                    /\ pc' = [pc EXCEPT ![0] = "scheduled"]
                    /\ response' = "ok"
                    /\ UNCHANGED dbFailures
               ELSE /\ dbFailures < MaxDbFailures
                    /\ dbFailures' = dbFailures + 1
                    /\ pc' = [pc EXCEPT ![0] = "not_scheduled"]
                    /\ response' = "500"
                    /\ UNCHANGED db
    /\ UNCHANGED <<emitted_agents, checkpointer, loops, reqs, history, restarts,
                   aggregate_runs, subscribers>>

(* ---------------- the compiled graph (build_graph, astream) ----------- *)

\* One invocation of validation_graph.astream: the channel values of the loop, the
\* node(s) of its next superstep, the resume value of Command(resume=...), and the
\* partial updates returned so far by the branches of the fan-out superstep.
\* With stream_mode="values" the stream first yields the values it starts from
\* (the input, or the checkpointed state on resume), then the values after each
\* superstep.
NewLoop(values, next, input) ==
    [values |-> values, next |-> next, input |-> input, branches |-> <<>>]

Checkpoint(loop) ==
    [values |-> loop.values,
     next |-> IF loop.next = "__interrupt__" THEN "human_gate" ELSE loop.next]

\* outcomes of the external calls of a superstep: the scrape of fetch_content and,
\* when interrupt() fires, whether the stream outputs the state once more before it
\* ends or lets the GraphInterrupt reach its consumer
StepChoices(loop) ==
    IF loop.next = "fetch_content"
    THEN {[ok |-> TRUE, content |-> c, reyield |-> FALSE, raises |-> FALSE] :
             c \in Contents}
         \cup {[ok |-> FALSE, content |-> FullContent, reyield |-> FALSE,
                raises |-> FALSE]}
    ELSE IF loop.next = "human_gate" /\ loop.input = None
    THEN {[ok |-> TRUE, content |-> FullContent, reyield |-> r, raises |-> FALSE] :
             r \in BOOLEAN}
         \cup {[ok |-> TRUE, content |-> FullContent, reyield |-> FALSE,
                raises |-> TRUE]}
    ELSE {[ok |-> TRUE, content |-> FullContent, reyield |-> FALSE, raises |-> FALSE]}

\* the conditional edge after triage: the fan-out to the nodes of the Sends, or the
\* end of the run when dispatch_agents returns no Send
AfterTriage(values) == IF dispatch_agents(values) = <<>> THEN "__end__" ELSE "agents"

\* The loop after its next superstep, following the edges of build_graph:
\* START -> fetch_content -> triage -> (Send per dispatched agent) -> aggregate
\* -> human_gate -> approve | reject -> END.
NodeStep(loop, c) ==
    LET v == loop.values
    IN       CASE loop.next = "fetch_content" ->
                    [loop EXCEPT !.values = ApplyUpdate(v, fetch_content_node(v, c.ok, c.content)),
                                 !.next = "triage"]
               [] loop.next = "triage" ->
                    [loop EXCEPT !.values = ApplyUpdate(v, triage_node(v)),
                                 !.next = AfterTriage(ApplyUpdate(v, triage_node(v)))]
               [] loop.next = "aggregate" ->
                    [loop EXCEPT !.values = ApplyUpdate(v, aggregate_node(v)),
                                 !.next = "human_gate"]
               [] loop.next = "human_gate" ->
                    IF loop.input # None
                    THEN LET nv == ApplyUpdate(v, human_gate_node(Get(loop.input)))
                         IN  [loop EXCEPT !.values = nv, !.next = route_after_human(nv)]
                    ELSE [loop EXCEPT !.next = "__interrupt__"]
               [] loop.next = "approve" ->
                    [loop EXCEPT !.values = ApplyUpdate(v, approve_node), !.next = "__end__"]
               [] loop.next = "reject" ->
                    [loop EXCEPT !.values = ApplyUpdate(v, reject_node), !.next = "__end__"]
               [] OTHER -> loop

\* a join that fires as soon as one Send branch has returned
BarrierReadyAny(sends, branches) == \E i \in 1..Len(sends) : sends[i] \in DOMAIN branches

\* the join of the fan-out superstep: every Send branch has returned
BarrierReady(sends, branches) == \A i \in 1..Len(sends) : sends[i] \in DOMAIN branches

\* the writes of the branches applied through the reducers, in the order of the Sends
RECURSIVE MergeWrites(_, _, _)
MergeWrites(values, sends, branches) ==
    IF sends = <<>> THEN values
    ELSE IF sends[1] \in DOMAIN branches
         THEN MergeWrites(ApplyUpdate(values, branches[sends[1]]), Tail(sends), branches)
         ELSE MergeWrites(values, Tail(sends), branches)

\* a Send that hands its node the state with the writes of the branches that have
\* already returned
SendStateLive(loop) ==
    MergeWrites(loop.values, dispatch_agents(loop.values), loop.branches)

\* Send(node_name, state) in dispatch_agents: the input of every Send branch is the
\* state the dispatcher was called with
SendState(loop) == loop.values

DropLoop(t) == [k \in (DOMAIN loops) \ {t} |-> loops[k]]

SingleNodes == {"fetch_content", "triage", "aggregate", "human_gate", "approve", "reject"}

(* ------------------------ _run_pipeline body -------------------------- *)

AgentOrder == ALL_STANDARD_AGENTS \o HIL_EXTRA_AGENTS

\* main.py 137-138
StatusEvents(chunk) ==
    IF chunk.status = "running" THEN <<StatusEvent("running")>> ELSE <<>>

\* an emitted check that is never consulted
NewlyDoneNoDedup(chunk, emitted) ==
    {a \in DOMAIN chunk.agent_statuses : chunk.agent_statuses[a] = "done"}

\* a loop over the agents that stops after the first agent it emits
NewlyDoneFirstOnly(chunk, emitted) ==
    LET new == {a \in DOMAIN chunk.agent_statuses :
                   chunk.agent_statuses[a] = "done" /\ a \notin emitted}
    IN  {a \in new : \A i, j \in 1..5 :
            (<<"metadata", "editorial", "compliance", "accuracy", "empty_tag">>[i] = a
             /\ <<"metadata", "editorial", "compliance", "accuracy", "empty_tag">>[j] \in new)
            => i <= j}

\* main.py 141-144: the agents reported done by the chunk and not yet emitted
NewlyDone(chunk, emitted) ==
    {a \in DOMAIN chunk.agent_statuses :
        chunk.agent_statuses[a] = "done" /\ a \notin emitted}

RECURSIVE AgentCompleteEvents(_, _)
AgentCompleteEvents(order, names) ==
    IF order = <<>> THEN <<>>
    ELSE IF order[1] \in names
         THEN <<Event("agent_complete", "", order[1], None, None)>>
              \o AgentCompleteEvents(Tail(order), names)
         ELSE AgentCompleteEvents(Tail(order), names)

\* main.py 145-155
AgentEvents(chunk, emitted) == AgentCompleteEvents(AgentOrder, NewlyDone(chunk, emitted))

\* a hitl branch that also closes the stream with a done event
HitlEventsWithDone(chunk) ==
    IF chunk.status = "awaiting_human"
    THEN <<Event("hitl", "", "", chunk.overall_score, chunk.overall_passed),
           DoneEvent("awaiting_human")>>
    ELSE <<>>

\* main.py 158-168
HitlEvents(chunk) ==
    IF chunk.status = "awaiting_human"
    THEN <<Event("hitl", "", "", chunk.overall_score, chunk.overall_passed)>>
    ELSE <<>>

\* sep.join(xs)
RECURSIVE Join_str(_, _)
Join_str(sep, xs) ==
    IF xs = <<>> THEN <<>>
    ELSE IF Len(xs) = 1 THEN <<xs[1]>>
    ELSE <<xs[1], sep>> \o Join_str(sep, Tail(xs))

\* main.py 177: "; ".join(errors) if errors else "Validation failed"
ErrorMessage(errors) ==
    IF errors # <<>> THEN Join_str("; ", errors) ELSE <<"Validation failed">>

\* a failed branch that reports a fixed text
FailedEventsFixedText(chunk) ==
    IF chunk.status = "failed"
    THEN <<ErrorEventOf(<<"Validation failed">>), DoneEvent("failed")>>
    ELSE <<>>

\* main.py 173-179
FailedEvents(chunk) ==
    IF chunk.status = "failed"
    THEN <<ErrorEventOf(ErrorMessage(chunk.errors)), DoneEvent("failed")>>
    ELSE <<>>

\* a body that does not return after a failed snapshot
RunNextPcNoStop(chunk) ==
    IF chunk.status = "awaiting_human" THEN "suspended" ELSE "stream"

\* a body that does not return after the hitl event
RunNextPcNoReturn(chunk) ==
    IF chunk.status = "failed" THEN "finished" ELSE "stream"

\* main.py 170, 180: the task returns after hitl and after failed, else iterates on
RunNextPc(chunk) ==
    IF chunk.status = "awaiting_human" THEN "suspended"
    ELSE IF chunk.status = "failed" THEN "finished"
    ELSE "stream"

\* An exception reaches the except clause of task t.  _run_pipeline marks the cached
\* snapshot failed and goes on to save it; _resume_pipeline enqueues error and done.
RaiseEffects(t) ==
    IF t = 0 /\ Vid \in DOMAIN validation_store
    THEN /\ validation_store' = [validation_store EXCEPT ![Vid].status = "failed"]
         /\ pc' = [pc EXCEPT ![t] = "except_upsert"]
         /\ UNCHANGED <<sse_queues, history>>
    ELSE /\ Put(<<ErrorEvent, DoneEvent("failed")>>)
         /\ pc' = [pc EXCEPT ![t] = "finished"]
         /\ UNCHANGED validation_store

(* ------------------------------ actions ------------------------------- *)

\* _run_pipeline starts (main.py 121-131): it resets the emitted set, enqueues the
\* scraping status, opens the stream on the initial state and caches the first
\* state the stream yields, which is that input.
RunStart ==
    /\ pc[0] = "scheduled"
    /\ emitted_agents' = (Vid :> {})
    /\ Put(<<StatusEvent("scraping")>>)
    /\ LET nl == NewLoop(validation_store[Vid], "fetch_content", None)
       IN  /\ loops' = loops @@ (0 :> nl)
           /\ checkpointer' = (Vid :> Checkpoint(nl))
           /\ validation_store' = (Vid :> nl.values)
    /\ pc' = [pc EXCEPT ![0] = "upsert"]
    /\ response' = "none"
    /\ UNCHANGED subscribers
    /\ UNCHANGED <<db, reqs, restarts, dbFailures, aggregate_runs>>

\* The stream of task t runs one superstep and yields the state to the task, which
\* stores it in the cache (main.py 131, 213) and awaits the durable save.  A
\* GraphInterrupt that leaves the stream is an Exception for the task.
GraphStep(t, c) ==
    /\ t \in DOMAIN loops
    /\ pc[t] = "stream"
    /\ loops[t].next \in SingleNodes
    /\ c \in StepChoices(loops[t])
    /\ LET nl == NodeStep(loops[t], c)
           interrupted == nl.next = "__interrupt__"
       IN  /\ checkpointer' = (Vid :> Checkpoint(nl))
           /\ aggregate_runs' = IF loops[t].next = "aggregate"
                                 THEN aggregate_runs + 1 ELSE aggregate_runs
           /\ IF interrupted /\ c.raises
              THEN /\ RaiseEffects(t)
                   /\ loops' = DropLoop(t)
              ELSE /\ loops' = [loops EXCEPT ![t] = nl]
                   /\ UNCHANGED <<sse_queues, history>>
                   /\ IF interrupted /\ ~c.reyield
                      THEN UNCHANGED <<validation_store, pc>>
                      ELSE /\ validation_store' = (Vid :> nl.values)
                           /\ pc' = [pc EXCEPT ![t] = "upsert"]
    /\ response' = "none"
    /\ UNCHANGED subscribers
    /\ UNCHANGED <<emitted_agents, db, reqs, restarts, dbFailures>>

\* One Send branch of the fan-out superstep runs its agent node on the state the
\* dispatcher saw; an exception leaving the node ends the stream with that exception.
AgentRun(t, a, o) ==
    /\ t \in DOMAIN loops
    /\ pc[t] = "stream"
    /\ loops[t].next = "agents"
    /\ a \in SeqToSet(dispatch_agents(loops[t].values)) \ DOMAIN loops[t].branches
    /\ o \in AgentOutcomes(a)
    /\ LET res == RunAgentNode(a, SendState(loops[t]), o)
       IN  IF res.raised
           THEN /\ RaiseEffects(t)
                /\ loops' = DropLoop(t)
           ELSE /\ loops' = [loops EXCEPT ![t].branches = @ @@ (a :> res.update)]
                /\ UNCHANGED <<validation_store, pc, sse_queues, history>>
    /\ response' = "none"
    /\ UNCHANGED subscribers
    /\ UNCHANGED <<emitted_agents, db, checkpointer, reqs, restarts,
                   dbFailures, aggregate_runs>>

\* Fan-in: the writes of all branches are applied and the state is yielded
Join(t) ==
    /\ t \in DOMAIN loops
    /\ pc[t] = "stream"
    /\ loops[t].next = "agents"
    /\ BarrierReady(dispatch_agents(loops[t].values), loops[t].branches)
    /\ LET nl == [loops[t] EXCEPT
                     !.values = MergeWrites(loops[t].values,
                                            dispatch_agents(loops[t].values),
                                            loops[t].branches),
                     !.next = "aggregate",
                     !.branches = <<>>]
       IN  /\ loops' = [loops EXCEPT ![t] = nl]
           /\ checkpointer' = (Vid :> Checkpoint(nl))
           /\ validation_store' = (Vid :> nl.values)
           /\ pc' = [pc EXCEPT ![t] = "upsert"]
    /\ response' = "none"
    /\ UNCHANGED subscribers
    /\ UNCHANGED <<sse_queues, emitted_agents, db, reqs, history, restarts,
                   dbFailures, aggregate_runs>>

\* await db.upsert_validation(chunk) returns or raises; when it returns, the rest
\* of the loop body runs without suspending (main.py 132-180, 214)
Upsert(t, ok) ==
    /\ t \in DOMAIN loops
    /\ pc[t] = "upsert"
    /\ LET chunk == loops[t].values
       IN  IF ok
           THEN /\ db' = (Vid :> Row(chunk))
                /\ UNCHANGED <<dbFailures, validation_store>>
                /\ IF t = 0
                   THEN /\ Put(StatusEvents(chunk)
                               \o AgentEvents(chunk, emitted_agents[Vid])
                               \o HitlEvents(chunk)
                               \o FailedEvents(chunk))
                        /\ emitted_agents' =
                              (Vid :> (emitted_agents[Vid]
                                       \cup NewlyDone(chunk, emitted_agents[Vid])))
                        /\ pc' = [pc EXCEPT ![0] = RunNextPc(chunk)]
                        /\ loops' = IF RunNextPc(chunk) = "stream" THEN loops
                                    ELSE DropLoop(0)
                   ELSE /\ pc' = [pc EXCEPT ![t] = "stream"]
                        /\ UNCHANGED <<sse_queues, history, emitted_agents, loops>>
           ELSE /\ dbFailures < MaxDbFailures
                /\ dbFailures' = dbFailures + 1
                /\ RaiseEffects(t)
                /\ loops' = DropLoop(t)
                /\ UNCHANGED <<db, emitted_agents>>
    /\ response' = "none"
    /\ UNCHANGED subscribers
    /\ UNCHANGED <<checkpointer, reqs, restarts, aggregate_runs>>

\* the except clause of _run_pipeline saves the failed snapshot (main.py 185-187)
RunExceptUpsert(ok) ==
    /\ pc[0] = "except_upsert"
    /\ IF ok
       THEN /\ db' = (Vid :> Row(validation_store[Vid]))
            /\ Put(<<ErrorEvent, DoneEvent("failed")>>)
            /\ pc' = [pc EXCEPT ![0] = "finished"]
            /\ UNCHANGED dbFailures
       ELSE /\ dbFailures < MaxDbFailures
            /\ dbFailures' = dbFailures + 1
            /\ pc' = [pc EXCEPT ![0] = "crashed"]
            /\ UNCHANGED <<db, sse_queues, history>>
    /\ response' = "none"
    /\ UNCHANGED subscribers
    /\ UNCHANGED <<validation_store, emitted_agents, checkpointer, loops, reqs,
                   restarts, aggregate_runs>>

\* The stream of task t is exhausted.  _run_pipeline just returns; _resume_pipeline
\* reads the final status from the cache and enqueues done (main.py 216-217).
StreamEnd(t) ==
    /\ t \in DOMAIN loops
    /\ pc[t] = "stream"
    /\ loops[t].next \in {"__end__", "__interrupt__"}
    /\ IF t = 0
       THEN UNCHANGED <<sse_queues, history>>
       ELSE Put(<<DoneEvent(IF Vid \in DOMAIN validation_store
                            THEN validation_store[Vid].status ELSE "unknown")>>)
    /\ pc' = [pc EXCEPT ![t] = "finished"]
    /\ loops' = DropLoop(t)
    /\ response' = "none"
    /\ UNCHANGED subscribers
    /\ UNCHANGED <<validation_store, emitted_agents, db, checkpointer, reqs, restarts,
                   dbFailures, aggregate_runs>>

\* the resume value _resume_pipeline builds from the request (main.py 204-208, 323-325)
HumanInput(req) ==
    [human_decision |-> req.decision,
     human_feedback |-> IF req.feedback = NoneStr THEN "" ELSE req.feedback,
     reviewed_by |-> IF req.reviewer_id = NoneStr THEN "web-user" ELSE req.reviewer_id]

\* main.py 305, 309: the status of the cached snapshot, else of the stored row
DecideStatus(store, table) ==
    IF Vid \in DOMAIN store THEN store[Vid].status ELSE table[Vid].status

\* a decide guard that also lets a decided run be decided again
DecideAllowedAnyDecidable(current_status) ==
    current_status \in {"awaiting_human", "approved", "rejected"}

\* main.py 310: the only status in which a decision is accepted
DecideAllowed(current_status) == current_status = "awaiting_human"

\* POST /api/validate/{vid}/decide
human_decision(req, dbOk) ==
    LET inMem == Vid \in DOMAIN validation_store
        found == inMem \/ Vid \in DOMAIN db
        current_status == DecideStatus(validation_store, db)
    IN  /\ inMem => dbOk
        /\ IF ~dbOk
           THEN /\ dbFailures < MaxDbFailures
                /\ dbFailures' = dbFailures + 1
                /\ response' = "500"
                /\ UNCHANGED <<sse_queues, reqs, pc>>
           ELSE IF ~found
           THEN /\ response' = "404"
                /\ UNCHANGED <<sse_queues, reqs, pc, dbFailures>>
           ELSE IF ~DecideAllowed(current_status)
           THEN /\ response' = "400"
                /\ UNCHANGED <<sse_queues, reqs, pc, dbFailures>>
           ELSE /\ Len(reqs) < MaxDecides
                /\ sse_queues' = IF Vid \in DOMAIN sse_queues THEN sse_queues
                                 ELSE (Vid :> <<>>)
                /\ reqs' = Append(reqs, [decision |-> req.decision,
                                         feedback |-> req.feedback,
                                         reviewer_id |-> req.reviewer_id,
                                         epoch |-> restarts])
                /\ pc' = pc @@ ((Len(reqs) + 1) :> "scheduled")
                /\ response' = "resuming"
                /\ UNCHANGED dbFailures
        /\ UNCHANGED <<validation_store, emitted_agents, db, checkpointer, loops,
                       history, restarts, aggregate_runs, subscribers>>

\* _resume_pipeline starts (main.py 201-213).  With the thread's checkpoint the stream
\* resumes the graph there and first yields the checkpointed state, which the task
\* caches; without a checkpoint the stream raises or ends without yielding a state.
ResumeStart(t, lost) ==
    /\ t \in DOMAIN pc
    /\ t # 0
    /\ pc[t] = "scheduled"
    /\ IF Vid \in DOMAIN checkpointer
       THEN /\ lost = "raise"
            /\ loops' = loops @@ (t :> NewLoop(checkpointer[Vid].values,
                                                checkpointer[Vid].next,
                                                Some(HumanInput(reqs[t]))))
            /\ validation_store' = (Vid :> checkpointer[Vid].values)
            /\ pc' = [pc EXCEPT ![t] = "upsert"]
            /\ UNCHANGED <<sse_queues, history>>
       ELSE /\ UNCHANGED loops
            /\ IF lost = "raise"
               THEN RaiseEffects(t)
               ELSE /\ Put(<<DoneEvent(IF Vid \in DOMAIN validation_store
                                        THEN validation_store[Vid].status
                                        ELSE "unknown")>>)
                    /\ pc' = [pc EXCEPT ![t] = "finished"]
                    /\ UNCHANGED validation_store
    /\ response' = "none"
    /\ UNCHANGED subscribers
    /\ UNCHANGED <<emitted_agents, db, checkpointer, reqs, restarts,
                   dbFailures, aggregate_runs>>

\* a lookup that prefers the stored row to the cached snapshot
GetStatusRowFirst(store, table) ==
    IF Vid \in DOMAIN table THEN table[Vid].status
    ELSE IF Vid \in DOMAIN store THEN store[Vid].status
    ELSE "404"

\* main.py 278-293: the status in the snapshot get_validation returns, from the cache
\* when the run is cached, else from the stored row; 404 when there is neither
GetStatus(store, table) ==
    IF Vid \in DOMAIN store THEN store[Vid].status
    ELSE IF Vid \in DOMAIN table THEN table[Vid].status
    ELSE "404"

\* GET /api/validate/{vid}: the store is only called when the run is not cached
get_validation(dbOk) ==
    /\ Vid \in DOMAIN validation_store => dbOk
    /\ IF dbOk
       THEN /\ response' = GetStatus(validation_store, db)
            /\ UNCHANGED dbFailures
       ELSE /\ dbFailures < MaxDbFailures
            /\ dbFailures' = dbFailures + 1
            /\ response' = "500"
    /\ UNCHANGED <<validation_store, sse_queues, emitted_agents, db, checkpointer,
                   loops, pc, reqs, history, restarts, aggregate_runs, subscribers>>

\* a subscribe call that registers a queue for a run it does not know
stream_validation_create(s) ==
    /\ subscribers[s].state = "none"
    /\ subscribers' = [subscribers EXCEPT ![s].state = "open",
                                          ![s].attached = Len(history)]
    /\ sse_queues' = IF Vid \in DOMAIN sse_queues THEN sse_queues ELSE (Vid :> <<>>)
    /\ response' = "none"
    /\ UNCHANGED <<validation_store, emitted_agents, db, checkpointer,
                   loops, pc, reqs, history, restarts, dbFailures, aggregate_runs>>

\* GET /api/validate/{vid}/stream (main.py 246-268): without a queue registered for
\* the run the call answers 404, else it opens a stream on that queue
stream_validation(s) ==
    /\ subscribers[s].state = "none"
    /\ subscribers' = IF Vid \notin DOMAIN sse_queues
                      THEN [subscribers EXCEPT ![s].state = "404"]
                      ELSE [subscribers EXCEPT ![s].state = "open",
                                               ![s].attached = Len(history)]
    /\ response' = "none"
    /\ UNCHANGED <<validation_store, sse_queues, emitted_agents, db, checkpointer,
                   loops, pc, reqs, history, restarts, dbFailures, aggregate_runs>>

\* the event types after which event_generator leaves its loop (main.py 263-264)
ClosingTypes == {"done", "error"}

\* a queue that hands out the event enqueued last
Get_q_Lifo(q) == [event |-> q[Len(q)], rest |-> SubSeq(q, 1, Len(q) - 1)]

\* q.get() on the asyncio.Queue of the run (main.py 261): the oldest queued event
\* and the queue without it
Get_q(q) == [event |-> Head(q), rest |-> Tail(q)]

\* One iteration of event_generator that gets an event: the event is taken from the
\* queue and delivered, and the stream ends when its type is a closing type.  An
\* iteration that times out delivers a keepalive ping and changes nothing here.
event_generator(s) ==
    /\ subscribers[s].state = "open"
    /\ Vid \in DOMAIN sse_queues
    /\ sse_queues[Vid] # <<>>
    /\ LET event == Get_q(sse_queues[Vid]).event
       IN  /\ sse_queues' = [sse_queues EXCEPT ![Vid] = Get_q(@).rest]
           /\ subscribers' =
                 [subscribers EXCEPT
                     ![s].state = IF event.type \in ClosingTypes
                                  THEN "closed" ELSE "open",
                     ![s].delivered = Append(@, event)]
    /\ response' = "none"
    /\ UNCHANGED <<validation_store, emitted_agents, db, checkpointer, loops, pc,
                   reqs, history, restarts, dbFailures, aggregate_runs>>

TerminalPcs == {"unsubmitted", "not_scheduled", "suspended", "finished", "crashed", "killed"}

\* The process restarts: every in-memory store and every task is lost, the
\* validations table is kept.
Restart ==
    /\ restarts < MaxRestarts
    /\ pc[0] # "unsubmitted"
    /\ restarts' = restarts + 1
    /\ validation_store' = <<>>
    /\ sse_queues' = <<>>
    /\ emitted_agents' = <<>>
    /\ checkpointer' = <<>>
    /\ loops' = <<>>
    /\ pc' = [t \in DOMAIN pc |-> IF pc[t] \in TerminalPcs THEN pc[t] ELSE "killed"]
    /\ subscribers' = [s \in Clients |-> NoSubscriber]
    /\ response' = "none"
    /\ UNCHANGED <<db, reqs, history, dbFailures, aggregate_runs>>

\* the outcomes of the external collaborators when nothing goes wrong in a check step
NominalOutcomes(agent) == IF agent = "empty_tag" THEN {0} ELSE {"pass"}

NominalChoices(loop) ==
    {c \in StepChoices(loop) : c.content = FullContent}

NominalUrls == {<<"mayoclinic.org", "diseases-conditions">>, <<"webmd.com", "diabetes">>}

\* The whole service: submit, the run task, decide, the resume tasks and restarts,
\* with check steps that succeed and saves of the tasks that succeed.  The database
\* may fail in the handlers; a resume task fails when the checkpoint of its thread
\* is lost.
Next ==
    \/ \E req \in Requests(NominalUrls), dbOk \in BOOLEAN : start_validation(req, dbOk)
    \/ RunStart
    \/ \E t \in DOMAIN loops : \E c \in NominalChoices(loops[t]) : GraphStep(t, c)
    \/ \E t \in DOMAIN loops, a \in Agents : \E o \in NominalOutcomes(a) : AgentRun(t, a, o)
    \/ \E t \in DOMAIN loops : Join(t)
    \/ \E t \in DOMAIN loops : Upsert(t, TRUE)
    \/ \E t \in DOMAIN loops : StreamEnd(t)
    \/ \E req \in DecideRequests, dbOk \in BOOLEAN : human_decision(req, dbOk)
    \/ \E t \in DOMAIN pc, lost \in {"raise", "empty"} : ResumeStart(t, lost)
    \/ Restart

Spec == Init /\ [][Next]_vars

\* The whole service where the saves awaited by the tasks may fail as well.
NextFaults ==
    \/ \E req \in Requests(NominalUrls), dbOk \in BOOLEAN : start_validation(req, dbOk)
    \/ RunStart
    \/ \E t \in DOMAIN loops : \E c \in NominalChoices(loops[t]) : GraphStep(t, c)
    \/ \E t \in DOMAIN loops, a \in Agents : \E o \in NominalOutcomes(a) : AgentRun(t, a, o)
    \/ \E t \in DOMAIN loops : Join(t)
    \/ \E t \in DOMAIN loops, ok \in BOOLEAN : Upsert(t, ok)
    \/ \E ok \in BOOLEAN : RunExceptUpsert(ok)
    \/ \E t \in DOMAIN loops : StreamEnd(t)
    \/ \E req \in DecideRequests, dbOk \in BOOLEAN : human_decision(req, dbOk)
    \/ \E t \in DOMAIN pc, lost \in {"raise", "empty"} : ResumeStart(t, lost)
    \/ Restart

SpecFaults == Init /\ [][NextFaults]_vars

\* The run from submission to suspension or failure, with every outcome of the
\* fetch and of the check steps.
NextPipeline ==
    \/ \E req \in Requests(Urls), dbOk \in BOOLEAN : start_validation(req, dbOk)
    \/ RunStart
    \/ \E t \in DOMAIN loops : \E c \in StepChoices(loops[t]) : GraphStep(t, c)
    \/ \E t \in DOMAIN loops, a \in Agents : \E o \in AgentOutcomes(a) : AgentRun(t, a, o)
    \/ \E t \in DOMAIN loops : Join(t)
    \/ \E t \in DOMAIN loops, ok \in BOOLEAN : Upsert(t, ok)
    \/ \E ok \in BOOLEAN : RunExceptUpsert(ok)

SpecPipeline == Init /\ [][NextPipeline]_vars

\* the steps of background task t: task 0 is _run_pipeline, task i >= 1 is the
\* _resume_pipeline scheduled by the i-th accepted decide
TaskStep(t) ==
    \/ t = 0 /\ RunStart
    \/ t = 0 /\ \E ok \in BOOLEAN : RunExceptUpsert(ok)
    \/ t \in DOMAIN loops /\ \E c \in NominalChoices(loops[t]) : GraphStep(t, c)
    \/ t \in DOMAIN loops /\ \E a \in Agents : \E o \in NominalOutcomes(a) : AgentRun(t, a, o)
    \/ Join(t)
    \/ \E ok \in BOOLEAN : Upsert(t, ok)
    \/ StreamEnd(t)
    \/ \E lost \in {"raise", "empty"} : ResumeStart(t, lost)

\* The service without restarts, where every save may fail.
NextLive ==
    \/ \E req \in Requests(NominalUrls), dbOk \in BOOLEAN : start_validation(req, dbOk)
    \/ \E req \in DecideRequests, dbOk \in BOOLEAN : human_decision(req, dbOk)
    \/ \E t \in 0..MaxDecides : TaskStep(t)

\* The event loop runs every scheduled task that is ready, and every awaited call
\* returns or raises: each task takes its next step when that step stays possible.
SpecLive ==
    Init /\ [][NextLive]_vars /\ \A t \in 0..MaxDecides : WF_vars(TaskStep(t))

\* A run in a process that does not restart, with one client subscribed to its
\* events: submit, the run task, decide and the resume tasks, with every outcome of
\* the fetch, check steps that succeed and saves of the tasks that succeed.
NextStream ==
    \/ \E req \in Requests(NominalUrls), dbOk \in BOOLEAN : start_validation(req, dbOk)
    \/ RunStart
    \/ \E t \in DOMAIN loops : \E c \in StepChoices(loops[t]) : GraphStep(t, c)
    \/ \E t \in DOMAIN loops, a \in Agents : \E o \in NominalOutcomes(a) : AgentRun(t, a, o)
    \/ \E t \in DOMAIN loops : Join(t)
    \/ \E t \in DOMAIN loops : Upsert(t, TRUE)
    \/ \E t \in DOMAIN loops : StreamEnd(t)
    \/ \E req \in DecideRequests : Len(reqs) < MaxStreamDecides /\ human_decision(req, TRUE)
    \/ \E t \in DOMAIN pc : ResumeStart(t, "raise")
    \/ stream_validation(1)
    \/ event_generator(1)

SpecStream == Init /\ [][NextStream]_vars

\* The service with clients that read the state of the run at any time and
\* that call subscribe before the run is submitted: check steps and saves of the
\* tasks succeed, the database may fail in the handlers, the process may restart.
NextRead ==
    \/ \E req \in Requests(NominalUrls), dbOk \in BOOLEAN : start_validation(req, dbOk)
    \/ RunStart
    \/ \E t \in DOMAIN loops : \E c \in NominalChoices(loops[t]) : GraphStep(t, c)
    \/ \E t \in DOMAIN loops, a \in Agents : \E o \in NominalOutcomes(a) : AgentRun(t, a, o)
    \/ \E t \in DOMAIN loops : Join(t)
    \/ \E t \in DOMAIN loops : Upsert(t, TRUE)
    \/ \E t \in DOMAIN loops : StreamEnd(t)
    \/ \E req \in DecideRequests, dbOk \in BOOLEAN :
          Len(reqs) < MaxStreamDecides /\ human_decision(req, dbOk)
    \/ \E t \in DOMAIN pc, lost \in {"raise", "empty"} : ResumeStart(t, lost)
    \/ Restart
    \/ \E dbOk \in BOOLEAN : get_validation(dbOk)
    \/ pc[0] = "unsubmitted" /\ stream_validation(1)

SpecRead == Init /\ [][NextRead]_vars

\* The same with several clients subscribed to the events of the run.
NextFanout ==
    \/ \E req \in Requests(NominalUrls), dbOk \in BOOLEAN : start_validation(req, dbOk)
    \/ RunStart
    \/ \E t \in DOMAIN loops : \E c \in StepChoices(loops[t]) : GraphStep(t, c)
    \/ \E t \in DOMAIN loops, a \in Agents : \E o \in NominalOutcomes(a) : AgentRun(t, a, o)
    \/ \E t \in DOMAIN loops : Join(t)
    \/ \E t \in DOMAIN loops : Upsert(t, TRUE)
    \/ \E t \in DOMAIN loops : StreamEnd(t)
    \/ \E req \in DecideRequests : Len(reqs) < MaxStreamDecides /\ human_decision(req, TRUE)
    \/ \E t \in DOMAIN pc : ResumeStart(t, "raise")
    \/ \E s \in Clients : stream_validation(s)
    \/ \E s \in Clients : event_generator(s)

SpecFanout == Init /\ [][NextFanout]_vars

\* verdicts of check steps: passed and score, in thousandths
AggVerdicts ==
    {[passed |-> FALSE, score |-> 0], [passed |-> FALSE, score |-> 50],
     [passed |-> TRUE, score |-> 750], [passed |-> TRUE, score |-> 1000]}

\* the findings lists of up to MaxFindings check steps, in the order of their Sends
FindingLists ==
    UNION {{[i \in 1..n |-> AgentFinding(AgentOrder[i], v[i].passed, v[i].score)] :
               v \in [1..n -> AggVerdicts]} : n \in 0..MaxFindings}

\* the run state after the fan-in of check steps that returned the findings fs
AggInput(fs) ==
    LET url == <<"mayoclinic.org", "healthy-lifestyle">>
        fetched == ApplyUpdate(_initial_state(url),
                               fetch_content_node(_initial_state(url), TRUE, FullContent))
        triaged == ApplyUpdate(fetched, triage_node(fetched))
    IN  [triaged EXCEPT !.findings = fs,
                        !.agent_statuses = [a \in {fs[i].agent : i \in 1..Len(fs)} |-> "done"]]

\* names a routing decision may list: the registered agents and one that is not
RoutableNames == Agents \cup {"judge"}

\* the lists of up to MaxRouted different names
RoutedLists ==
    UNION {{l \in [1..n -> RoutableNames] : \A i, j \in 1..n : l[i] = l[j] => i = j} :
              n \in 0..MaxRouted}

\* the routing decisions the dispatcher may be given, and a missing one
RoutingDecisions ==
    {None} \cup {Some([agents_to_run |-> l, agents_skipped |-> <<>>,
                       content_type |-> "standard"]) : l \in RoutedLists}

\* the run state after triage of a fetched page, with the routing decision rd
DispatchInput(url, rd) ==
    LET fetched == ApplyUpdate(_initial_state(url),
                               fetch_content_node(_initial_state(url), TRUE, FullContent))
        triaged == ApplyUpdate(fetched, triage_node(fetched))
    IN  [triaged EXCEPT !.routing_decision = rd]

\* The run task with the snapshot after triage handled, the dispatcher about to
\* run, for every routing decision of RoutingDecisions.
InitDispatch ==
    \E url \in {u \in Urls : must_be_mayo_url(u)}, rd \in RoutingDecisions :
        LET v == DispatchInput(url, rd)
        IN  /\ validation_store = (Vid :> v)
            /\ sse_queues = (Vid :> <<>>)
            /\ emitted_agents = (Vid :> {})
            /\ db = (Vid :> Row(v))
            /\ checkpointer = (Vid :> Checkpoint(NewLoop(v, AfterTriage(v), None)))
            /\ loops = (0 :> NewLoop(v, AfterTriage(v), None))
            /\ pc = (0 :> "stream")
            /\ reqs = <<>>
            /\ history = <<>>
            /\ response = "none"
            /\ restarts = 0
            /\ dbFailures = 0
            /\ aggregate_runs = 0
            /\ subscribers = [s \in Clients |-> NoSubscriber]

\* the fan-out, the fan-in and the rest of the run task, with check steps and saves
\* that succeed
NextDispatch ==
    \/ \E t \in DOMAIN loops : \E c \in NominalChoices(loops[t]) : GraphStep(t, c)
    \/ \E t \in DOMAIN loops, a \in Agents : \E o \in NominalOutcomes(a) : AgentRun(t, a, o)
    \/ \E t \in DOMAIN loops : Join(t)
    \/ \E t \in DOMAIN loops : Upsert(t, TRUE)
    \/ \E t \in DOMAIN loops : StreamEnd(t)

SpecDispatch == InitDispatch /\ [][NextDispatch]_vars

\* The run task right after the fan-in, about to run aggregate, for every findings
\* list of FindingLists.
InitAggregate ==
    \E fs \in FindingLists :
        /\ validation_store = (Vid :> AggInput(fs))
        /\ sse_queues = (Vid :> <<>>)
        /\ emitted_agents = (Vid :> {})
        /\ db = (Vid :> Row(AggInput(fs)))
        /\ checkpointer = (Vid :> Checkpoint(NewLoop(AggInput(fs), "aggregate", None)))
        /\ loops = (0 :> NewLoop(AggInput(fs), "aggregate", None))
        /\ pc = (0 :> "stream")
        /\ reqs = <<>>
        /\ history = <<>>
        /\ response = "none"
        /\ restarts = 0
        /\ dbFailures = 0
        /\ aggregate_runs = 0
        /\ subscribers = [s \in Clients |-> NoSubscriber]

\* the aggregate step, then the save and the events of the run task
NextAggregate ==
    \/ \E t \in DOMAIN loops : \E c \in NominalChoices(loops[t]) : GraphStep(t, c)
    \/ \E t \in DOMAIN loops : Upsert(t, TRUE)

SpecAggregate == InitAggregate /\ [][NextAggregate]_vars

(* ------------------------------- claims ------------------------------- *)

Found == Vid \in DOMAIN validation_store \/ Vid \in DOMAIN db

\* the lifecycle status stored for the run: the cached snapshot when there is one,
\* otherwise the row of the validations table
StoredStatus == DecideStatus(validation_store, db)

\* C1: as long as the process has not restarted, at most one decide call is accepted
\* for the run, also when a later call arrives before the resume task has stored the
\* approved or rejected status.
C1_AtMostOneDecideAccepted == restarts = 0 => Len(reqs) <= 1

\* C2: a decide call for a run whose stored status is not awaiting_human is rejected
\* with an error and changes nothing: the cached snapshot, the stored row, the queue
\* registry, the tasks and the enqueued events are as before the call.
C2_RejectedDecideChangesNothing ==
    [][(Found /\ StoredStatus # "awaiting_human" /\ response' # "none")
        => (/\ response' \in {"400", "500"}
            /\ UNCHANGED <<validation_store, db, sse_queues, emitted_agents,
                           checkpointer, loops, pc, reqs, history>>)]_vars

\* a decide was rejected for a run that had already been decided
C2_Witness ==
    /\ response = "400"
    /\ Vid \in DOMAIN validation_store
    /\ validation_store[Vid].status \in {"approved", "rejected"}
    /\ Len(reqs) = 1

\* C3: when the process restarted while the run was suspended and the decide call
\* accepted after the restart has been handled (no save failed), the stored status
\* is approved or rejected according to the decision and a done event announces it.
C3_ResumeAfterRestart ==
    (/\ restarts = 1
     /\ dbFailures = 0
     /\ Len(reqs) = 1
     /\ reqs[1].epoch = 1
     /\ pc[1] = "finished")
    => LET final == IF reqs[1].decision = "approve" THEN "approved" ELSE "rejected"
       IN  /\ db[Vid].status = final
           /\ \E i \in 1..Len(history) :
                 history[i].type = "done" /\ history[i].status = final

\* C4: at most one done event is ever enqueued for the run, whatever the order of
\* the submit and decide calls and of the steps of the run and resume tasks.
C4_AtMostOneDone == Count("done") <= 1

\* C5: no done event has been enqueued while the run task has stopped at the human
\* gate, or the stored status is awaiting_human, and no decide call has been accepted.
C5_NoDoneBeforeDecision ==
    (/\ Len(reqs) = 0
     /\ \/ pc[0] = "suspended"
        \/ (Vid \in DOMAIN validation_store
              /\ validation_store[Vid].status = "awaiting_human")
        \/ (Vid \in DOMAIN db /\ db[Vid].status = "awaiting_human"))
    => Count("done") = 0

\* the run task has stopped at the human gate after enqueuing hitl
C5_Witness ==
    /\ pc[0] = "suspended"
    /\ Len(reqs) = 0
    /\ Count("hitl") = 1
    /\ Vid \in DOMAIN validation_store
    /\ validation_store[Vid].status = "awaiting_human"

AgentCompleteCount(a) ==
    Cardinality({i \in 1..Len(history) :
                    history[i].type = "agent_complete" /\ history[i].agent = a})

\* C6: the hitl event is enqueued at most once for the run, and exactly once when
\* the run task has stopped at the human gate or the awaiting_human snapshot is saved.
C6_HitlExactlyOnce ==
    /\ Count("hitl") <= 1
    /\ (pc[0] = "suspended") <=> (Count("hitl") = 1)
    /\ (Vid \in DOMAIN db /\ db[Vid].status = "awaiting_human") => Count("hitl") = 1

\* the run task stopped at the gate with its single hitl event
C6_Witness ==
    /\ pc[0] = "suspended"
    /\ Count("hitl") = 1
    /\ db[Vid].status = "awaiting_human"

\* C7: for every agent name at most one agent_complete event is enqueued.
C7_AgentCompleteAtMostOnce == \A a \in Agents : AgentCompleteCount(a) <= 1

\* two snapshots (after the fan-in and after aggregate) reported the agents done
C7_Witness ==
    /\ pc[0] = "suspended"
    /\ Vid \in DOMAIN validation_store
    /\ DOMAIN validation_store[Vid].agent_statuses
         = {"metadata", "editorial", "compliance", "accuracy", "empty_tag"}
    /\ \A a \in Agents : AgentCompleteCount(a) = 1

\* C8: when the hitl event is enqueued, an agent_complete event precedes it in the
\* queue for every dispatched agent and every agent the snapshot reports done.
C8_AgentCompleteBeforeHitl ==
    \A i \in 1..Len(history) :
        history[i].type = "hitl" =>
            \A a \in SeqToSet(dispatch_agents(validation_store[Vid]))
                     \cup DOMAIN validation_store[Vid].agent_statuses :
                \E j \in 1..(i - 1) :
                    history[j].type = "agent_complete" /\ history[j].agent = a

\* hitl was enqueued for a run with five dispatched agents
C8_Witness ==
    /\ Count("hitl") = 1
    /\ Vid \in DOMAIN validation_store
    /\ Len(dispatch_agents(validation_store[Vid])) = 5
    /\ history[Len(history)].type = "hitl"

\* the findings hold exactly one finding per dispatched agent and none for a
\* skipped agent
OnePerDispatched(state) ==
    LET d == dispatch_agents(state)
    IN  /\ Len(state.findings) = Len(d)
        /\ \A i \in 1..Len(d) :
              Cardinality({k \in 1..Len(state.findings) :
                              state.findings[k].agent = d[i]}) = 1
        /\ \A k \in 1..Len(state.findings) :
              state.findings[k].agent \notin SeqToSet(state.skipped_agents)

C10_AggregateAfterAllAgents ==
    /\ \A t \in DOMAIN loops :
          loops[t].next = "aggregate" =>
              \A a \in SeqToSet(dispatch_agents(loops[t].values)) :
                  a \in DOMAIN loops[t].values.agent_statuses
    /\ (aggregate_runs >= 1 /\ Vid \in DOMAIN checkpointer) =>
          \A a \in SeqToSet(dispatch_agents(checkpointer[Vid].values)) :
              a \in DOMAIN checkpointer[Vid].values.agent_statuses
    /\ aggregate_runs <= 1
    /\ (Count("hitl") = 1) => aggregate_runs = 1

\* aggregate has run once and the run was resumed afterwards
C10_Witness ==
    /\ aggregate_runs = 1
    /\ Len(reqs) >= 1
    /\ pc[1] = "finished"
    /\ db[Vid].status \in {"approved", "rejected"}

\* the orders in which the writes of the Send branches could be applied
Orders(sends) ==
    {p \in [1..Len(sends) -> SeqToSet(sends)] :
        \A i, j \in 1..Len(sends) : i # j => p[i] # p[j]}

\* C11: when every Send branch has returned, applying the branches' partial updates
\* through the reducers gives the same run state in every order of application.
C11_MergeOrderIndependent ==
    \A t \in DOMAIN loops :
        (loops[t].next = "agents"
           /\ BarrierReady(dispatch_agents(loops[t].values), loops[t].branches))
        => \A p \in Orders(dispatch_agents(loops[t].values)) :
              MergeWrites(loops[t].values, p, loops[t].branches)
                = MergeWrites(loops[t].values, dispatch_agents(loops[t].values),
                              loops[t].branches)

\* the fetch of the run succeeded and no call to the durable store has failed
FetchedNoDbFailure ==
    /\ Vid \in DOMAIN validation_store
    /\ validation_store[Vid].scraped_content # None
    /\ dbFailures = 0

\* C12: a failure inside a check step, at any point of its work, never aborts the
\* run: with a successful fetch and a working store the run task never reaches its
\* except clause and never ends failed.
C12_StepFailureNeverAborts ==
    FetchedNoDbFailure =>
        /\ pc[0] \notin {"except_upsert", "finished", "crashed"}
        /\ validation_store[Vid].status # "failed"

\* findings of steps that failed internally: with the full page content a check
\* step reports passed false with score 0 only from its except clause
InternalFailures(findings) ==
    {k \in 1..Len(findings) : ~findings[k].passed /\ findings[k].score = 0}

\* C13: after the fan-in of a run on the full page content, the error list has one
\* entry per check step that failed internally.
C13_ErrorEntryPerFailedStep ==
    \A t \in DOMAIN loops :
        (loops[t].next = "aggregate"
           /\ loops[t].values.scraped_content = Some(FullContent))
        => Len(loops[t].values.errors)
             = Cardinality(InternalFailures(loops[t].values.findings))

\* position of a lifecycle status in the order pending, running, awaiting_human,
\* then approved, rejected or failed
Rank(status) ==
    CASE status = "pending" -> 0
      [] status = "running" -> 1
      [] status = "awaiting_human" -> 2
      [] OTHER -> 3

\* a stored status and the status stored next: forward in the order, and unchanged
\* once failed, approved or rejected
Forward(old, new) ==
    /\ Rank(old) <= Rank(new)
    /\ Rank(old) = 3 => new = old

\* C14: the lifecycle status stored for the run, in the cache and in the durable
\* store, only moves forward and never changes once it is failed, approved or
\* rejected.
C14_StatusOnlyMovesForward ==
    [][/\ (Vid \in DOMAIN validation_store /\ Vid \in DOMAIN validation_store')
            => Forward(validation_store[Vid].status, validation_store'[Vid].status)
       /\ (Vid \in DOMAIN db /\ Vid \in DOMAIN db')
            => Forward(db[Vid].status, db'[Vid].status)]_vars

FetchError == "Failed to scrape URL"

\* the state or row of a run whose fetch failed: failed, and untouched by triage, by
\* every check step, by aggregate and by the human gate
StoppedAtFetch(r) ==
    /\ r.status = "failed"
    /\ r.findings = <<>>
    /\ r.errors = <<FetchError>>
    /\ r.routing_decision = None
    /\ r.skipped_agents = <<>>
    /\ r.overall_score = None
    /\ r.overall_passed = None
    /\ r.human_decision = NoneStr

\* C15: once the fetch step has failed, the run is stored failed with empty findings
\* and no later step runs or contributes to the stored state.
C15_FetchFailureStopsRun ==
    /\ (Vid \in DOMAIN validation_store
          /\ FetchError \in SeqToSet(validation_store[Vid].errors))
        => (StoppedAtFetch(validation_store[Vid])
              /\ validation_store[Vid].agent_statuses = EmptyDict
              /\ aggregate_runs = 0)
    /\ (Vid \in DOMAIN db /\ FetchError \in SeqToSet(db[Vid].errors))
        => StoppedAtFetch(db[Vid])
    /\ \A t \in DOMAIN loops :
          FetchError \in SeqToSet(loops[t].values.errors)
            => (t = 0 /\ pc[t] = "upsert" /\ loops[t].next = "triage")

\* the run task has ended after a failed fetch and a decide was then refused
C15_Witness ==
    /\ pc[0] = "finished"
    /\ Vid \in DOMAIN db
    /\ db[Vid].errors = <<FetchError>>
    /\ db[Vid].status = "failed"
    /\ Count("done") = 1
    /\ response = "400"

\* the agents whose check step has returned in the graph invocation: those merged
\* into the findings and those whose Send branch has returned
CompletedAgents(loop) ==
    {loop.values.findings[k].agent : k \in 1..Len(loop.values.findings)}
      \cup DOMAIN loop.branches

\* C16: in the step that makes the run failed, the cached snapshot of the failed run
\* holds a finding of every check step that had completed.
C16_FailedRunKeepsFindings ==
    [][(/\ 0 \in DOMAIN loops
        /\ Vid \in DOMAIN validation_store
        /\ Vid \in DOMAIN validation_store'
        /\ validation_store[Vid].status # "failed"
        /\ validation_store'[Vid].status = "failed")
       => \A a \in CompletedAgents(loops[0]) :
             \E k \in 1..Len(validation_store'[Vid].findings) :
                validation_store'[Vid].findings[k].agent = a]_vars

\* the step enqueues an error event
EnqueuesError ==
    /\ Len(history') > Len(history)
    /\ \E i \in (Len(history) + 1)..Len(history') : history'[i].type = "error"

\* C17: an exception in the run task or in a resume task ends with the error event
\* immediately followed by done with status failed and with the stored status
\* failed, in the cache and in the durable store; no task dies without them.
C17_ExceptionLeavesRunFailed ==
    [][/\ EnqueuesError =>
            /\ history'[Len(history') - 1].type = "error"
            /\ history'[Len(history')] = DoneEvent("failed")
            /\ Vid \in DOMAIN validation_store'
                 => validation_store'[Vid].status = "failed"
            /\ Vid \in DOMAIN db' => db'[Vid].status = "failed"
       /\ \A t \in DOMAIN pc' : pc'[t] # "crashed"]_vars

\* the statuses a run may rest in: ended, or waiting for the reviewer
Settled == {"failed", "approved", "rejected", "awaiting_human"}

\* C18: every run registered by submit eventually has a stored status of failed,
\* approved, rejected or awaiting_human, in the cache and in its durable row, and
\* every accepted decide is eventually followed by the end of its resume task with
\* a done event enqueued.
C18_EveryRunSettles ==
    /\ (Vid \in DOMAIN validation_store)
         ~> (Vid \in DOMAIN validation_store
               /\ validation_store[Vid].status \in Settled)
    /\ (Vid \in DOMAIN db) ~> (Vid \in DOMAIN db /\ db[Vid].status \in Settled)
    /\ \A n \in 1..MaxDecides :
          (Len(reqs) >= n)
            ~> (n \in DOMAIN pc /\ pc[n] = "finished" /\ Count("done") >= 1)

\* the final status the routing after the human gate gives a decision
FinalStatus(decision) == IF decision = "approve" THEN "approved" ELSE "rejected"

\* the snapshot or row r holds the final status and the reviewer's input of req
HoldsDecision(r, req) ==
    /\ r.status = FinalStatus(req.decision)
    /\ r.human_decision = HumanInput(req).human_decision
    /\ r.human_feedback = HumanInput(req).human_feedback
    /\ r.reviewed_by = HumanInput(req).reviewed_by

\* every task of the run has ended or is suspended
Quiescent == \A t \in DOMAIN pc : pc[t] \in TerminalPcs

\* one decide was accepted, in a process that never restarted and whose store
\* never failed, and all the work it caused is over
DecidedOnce ==
    /\ Len(reqs) = 1
    /\ restarts = 0
    /\ dbFailures = 0
    /\ Quiescent

\* C19: once the single accepted decide has been handled, the cached snapshot and
\* the durable row hold approved for approve and rejected for reject together with
\* the decision, feedback and reviewer of the call, and the done event carries that
\* status.
C19_DecisionIsFinal ==
    DecidedOnce =>
        /\ Vid \in DOMAIN validation_store
        /\ HoldsDecision(validation_store[Vid], reqs[1])
        /\ HoldsDecision(db[Vid], reqs[1])
        /\ Count("done") = 1
        /\ \E i \in 1..Len(history) :
              history[i] = DoneEvent(FinalStatus(reqs[1].decision))

\* C20: the event stream of a subscriber ends only after it has delivered a done
\* event: a stream that has ended delivered done last, and no event is delivered
\* after a done event.
C20_StreamEndsAfterDone ==
    \A s \in Clients :
        LET d == subscribers[s].delivered
        IN  /\ subscribers[s].state = "closed" => (d # <<>> /\ d[Len(d)].type = "done")
            /\ \A i \in 1..Len(d) : d[i].type = "done" => i = Len(d)

EnqueuedSince(s) == SubSeq(history, subscribers[s].attached + 1, Len(history))

\* the last n elements of a sequence
Last(seq, n) == SubSeq(seq, Len(seq) - n + 1, Len(seq))

\* C22: with several subscribers attached to the run, each of them receives every
\* event enqueued after it attached: for an open stream those events are the last
\* of what the stream has delivered followed by what is still queued.
C22_EverySubscriberGetsEveryEvent ==
    \A s \in Clients :
        subscribers[s].state = "open" =>
            LET seen == subscribers[s].delivered \o sse_queues[Vid]
                n == Len(EnqueuedSince(s))
            IN  /\ Len(seen) >= n
                /\ Last(seen, n) = EnqueuedSince(s)

\* the findings list with the findings at positions i and j exchanged
Swap(fs, i, j) ==
    [k \in 1..Len(fs) |-> IF k = i THEN fs[j] ELSE IF k = j THEN fs[i] ELSE fs[k]]

\* the graph invocation of the run task has just run aggregate
Aggregated ==
    /\ 0 \in DOMAIN loops
    /\ loops[0].next = "human_gate"
    /\ aggregate_runs = 1

\* C23: on a non-empty findings list aggregate sets overall_passed to true exactly
\* when every finding has passed, and exchanging two findings of the list does not
\* change that.
C23_PassedIffAllPassed ==
    (Aggregated /\ loops[0].values.findings # <<>>) =>
        LET v == loops[0].values
            fs == v.findings
        IN  /\ v.overall_passed = Some(\A i \in 1..Len(fs) : fs[i].passed)
            /\ \A i, j \in 1..Len(fs) :
                  aggregate_node([v EXCEPT !.findings = Swap(fs, i, j)]).overall_passed
                    = v.overall_passed

\* aggregate has run on a list where a finding that passed precedes one that failed
C23_Witness ==
    /\ Aggregated
    /\ Len(loops[0].values.findings) >= 2
    /\ loops[0].values.findings[1].passed
    /\ ~loops[0].values.findings[2].passed
    /\ loops[0].values.overall_passed = Some(FALSE)

\* C24: on an empty findings list aggregate does not fail: it sets overall_score to 0
\* and overall_passed to false, and the run goes on to awaiting_human, is saved and
\* announced with hitl, and the run task suspends, as for every other run.
C24_EmptyFindingsAggregate ==
    /\ (Aggregated /\ loops[0].values.findings = <<>>) =>
          /\ loops[0].values.overall_score = Some(0)
          /\ loops[0].values.overall_passed = Some(FALSE)
          /\ loops[0].values.status = "awaiting_human"
    /\ (aggregate_runs = 1 /\ validation_store[Vid].findings = <<>>) =>
          /\ validation_store[Vid].status = "awaiting_human"
          /\ pc[0] \in {"upsert", "suspended"}
          /\ pc[0] = "suspended" =>
                /\ db[Vid].status = "awaiting_human"
                /\ db[Vid].overall_score = Some(0)
                /\ db[Vid].overall_passed = Some(FALSE)
                /\ Count("hitl") = 1
                /\ Count("error") = 0

\* the run task has suspended at the human gate after aggregating no finding
C24_Witness ==
    /\ pc[0] = "suspended"
    /\ aggregate_runs = 1
    /\ validation_store[Vid].findings = <<>>
    /\ db[Vid].status = "awaiting_human"
    /\ Count("hitl") = 1

\* the sum of the scores of the findings, in thousandths
RECURSIVE SumScores(_)
SumScores(fs) == IF fs = <<>> THEN 0 ELSE fs[1].score + SumScores(Tail(fs))

\* score is the quotient sum / n rounded to a nearest integer
IsRoundedQuotient(score, sum, n) ==
    /\ 2 * (n * score - sum) <= n
    /\ 2 * (sum - n * score) <= n

\* C25: on a non-empty findings list overall_score is the mean of the scores rounded
\* to three decimals (in thousandths, the rounded quotient of their sum by their
\* count), lies between 0 and 1, and exchanging two findings does not change it.
C25_ScoreIsRoundedMean ==
    (Aggregated /\ loops[0].values.findings # <<>>) =>
        LET v == loops[0].values
            fs == v.findings
        IN  /\ IsRoundedQuotient(Get(v.overall_score), SumScores(fs), Len(fs))
            /\ Get(v.overall_score) \in 0..1000
            /\ \A i, j \in 1..Len(fs) :
                  aggregate_node([v EXCEPT !.findings = Swap(fs, i, j)]).overall_score
                    = v.overall_score

\* the routing decision d is the one the URL alone determines, and it splits the
\* agent catalog as the URL demands
RoutedByUrl(d, url) ==
    LET run == SeqToSet(d.agents_to_run)
        skipped == SeqToSet(d.agents_skipped)
    IN  /\ Some(d) = triage_node(_initial_state(url)).routing_decision
        /\ SeqToSet(ALL_STANDARD_AGENTS) \subseteq run
        /\ "empty_tag" \in run <=> _is_hil_content(url)
        /\ ~_is_hil_content(url) => "empty_tag" \in skipped
        /\ run \cap skipped = {}
        /\ run \cup skipped = Agents

\* C26: the routing decision of a run is a function of its URL alone: the four
\* standard agents always run, empty_tag runs exactly when the URL contains
\* healthy-lifestyle and is skipped otherwise, and agents_to_run and agents_skipped
\* are disjoint and cover the agent catalog.
C26_RoutingByUrlAlone ==
    /\ \A t \in DOMAIN loops :
          loops[t].values.routing_decision # None =>
              RoutedByUrl(Get(loops[t].values.routing_decision), loops[t].values.url)
    /\ (Vid \in DOMAIN validation_store
          /\ validation_store[Vid].routing_decision # None) =>
              RoutedByUrl(Get(validation_store[Vid].routing_decision),
                          validation_store[Vid].url)
    /\ (Vid \in DOMAIN db /\ db[Vid].routing_decision # None) =>
              RoutedByUrl(Get(db[Vid].routing_decision), db[Vid].url)

\* a run on a healthy-lifestyle page was routed to the five agents after a fetch
\* that returned a page without body text
C26_Witness ==
    /\ Vid \in DOMAIN db
    /\ db[Vid].routing_decision # None
    /\ _is_hil_content(db[Vid].url)
    /\ Len(Get(db[Vid].routing_decision).agents_to_run) = 5
    /\ validation_store[Vid].scraped_content = Some([body_text |-> FALSE, raw_html |-> TRUE])

\* the reviewer's fields of a snapshot or row are null
NoDecisionFields(r) ==
    /\ r.human_decision = NoneStr
    /\ r.human_feedback = NoneStr
    /\ r.reviewed_by = NoneStr

\* C27: until a decide call for the run has been accepted, human_decision,
\* human_feedback and reviewed_by are null in the cached snapshot, in the stored
\* row, in the checkpoint and in the state of the running graph.
C27_NoDecisionBeforeDecide ==
    Len(reqs) = 0 =>
        /\ Vid \in DOMAIN validation_store => NoDecisionFields(validation_store[Vid])
        /\ Vid \in DOMAIN db => NoDecisionFields(db[Vid])
        /\ Vid \in DOMAIN checkpointer => NoDecisionFields(checkpointer[Vid].values)
        /\ \A t \in DOMAIN loops : NoDecisionFields(loops[t].values)

\* the run is suspended at the human gate, saved, and no decide was accepted yet
C27_Witness ==
    /\ Len(reqs) = 0
    /\ pc[0] = "suspended"
    /\ Vid \in DOMAIN db
    /\ db[Vid].status = "awaiting_human"
    /\ NoDecisionFields(db[Vid])
    /\ aggregate_runs = 1

\* C28: every dispatched check step works on the run state as it was when the
\* dispatcher ran, after triage: the state it reads holds no finding and no status
\* entry of a sibling, its update is what the step returns on that state for some
\* outcome of its own external call, and the updates of its siblings are untouched.
C28_StepsSeeDispatchState ==
    [][\A t \in (DOMAIN loops) \cap (DOMAIN loops'), a \in Agents :
          (/\ loops[t].next = "agents"
           /\ loops'[t].next = "agents"
           /\ a \notin DOMAIN loops[t].branches
           /\ a \in DOMAIN loops'[t].branches)
          => /\ SendState(loops[t]) = checkpointer[Vid].values
             /\ SendState(loops[t]).findings = <<>>
             /\ SendState(loops[t]).agent_statuses = EmptyDict
             /\ \E o \in AgentOutcomes(a) :
                   loops'[t].branches[a]
                     = RunAgentNode(a, checkpointer[Vid].values, o).update
             /\ \A b \in DOMAIN loops[t].branches :
                   loops'[t].branches[b] = loops[t].branches[b]]_vars

\* a check step has returned after a sibling whose evaluator call failed
C28_Witness ==
    /\ 0 \in DOMAIN loops
    /\ loops[0].next = "agents"
    /\ DOMAIN loops[0].branches = {"metadata", "empty_tag"}
    /\ ~loops[0].branches["metadata"].findings[1].passed
    /\ loops[0].branches["empty_tag"].findings[1].score = 750

\* no run was ever registered: submit never got past its validation
NeverSubmitted == pc[0] = "unsubmitted"

CreatesNothing ==
    UNCHANGED <<validation_store, sse_queues, db, checkpointer, loops, pc, reqs,
                emitted_agents, history>>

\* C29: while the run identity was never submitted, a get_state call and a decide
\* call answer 404 whenever the store answered their lookup, a subscribe call is
\* answered 404, and none of the three (also not one whose lookup failed) adds an
\* entry to the snapshot cache, the queue registry or the store, or schedules a
\* task.
C29_UnknownRunNotFound ==
    [][NeverSubmitted =>
          /\ (\E dbOk \in BOOLEAN : get_validation(dbOk))
                => /\ CreatesNothing
                   /\ dbFailures' = dbFailures => response' = "404"
          /\ (\E req \in DecideRequests, dbOk \in BOOLEAN : human_decision(req, dbOk))
                => /\ CreatesNothing
                   /\ dbFailures' = dbFailures => response' = "404"
          /\ \A s \in Clients :
                stream_validation(s)
                => /\ CreatesNothing
                   /\ subscribers'[s].state = "404"]_vars

\* a subscribe call and then a get_state or decide call were answered 404 before
\* any submit
C29_Witness ==
    /\ NeverSubmitted
    /\ subscribers[1].state = "404"
    /\ response = "404"
    /\ validation_store = <<>> /\ sse_queues = <<>> /\ db = <<>>

\* the values of the status field of a run
LifecycleStatuses ==
    {"pending", "scraping", "running", "awaiting_human", "approved", "rejected",
     "failed"}

\* C30: once the submit of a run has stored its row, a get_state call succeeds
\* whenever the store answers (it does not ask the store while the run is cached),
\* before and after a restart, and the status it returns is the one of the cached
\* snapshot while the run is cached and the one of the stored row otherwise.
C30_GetStateReturnsStoredStatus ==
    [][(Vid \in DOMAIN db /\ \E dbOk \in BOOLEAN : get_validation(dbOk))
          => /\ Vid \in DOMAIN validation_store => dbFailures' = dbFailures
             /\ dbFailures' = dbFailures
                  => /\ response' \in LifecycleStatuses
                     /\ response' = IF Vid \in DOMAIN validation_store
                                    THEN validation_store[Vid].status
                                    ELSE db[Vid].status]_vars

\* get_state was answered from the stored row after a restart emptied the cache
C30_Witness ==
    /\ restarts > 0
    /\ Vid \notin DOMAIN validation_store
    /\ Vid \in DOMAIN db
    /\ response = db[Vid].status

\* C31: a submit whose body has no url, or a url without mayoclinic.org, is answered
\* 422, which carries no run identity, and leaves the snapshot cache, the queue
\* registry, the store and the tasks as they were.
C31_InvalidSubmitCreatesNothing ==
    [][\A req \in Requests(Urls), dbOk \in BOOLEAN :
          (/\ start_validation(req, dbOk)
           /\ \/ "url" \notin DOMAIN req
              \/ \A i \in 1..Len(req.url) : req.url[i] # "mayoclinic.org")
          => /\ response' = "422"
             /\ UNCHANGED <<validation_store, sse_queues, emitted_agents, db,
                            checkpointer, loops, pc, reqs, history>>]_vars

\* a submit was answered 422 and nothing is registered
C31_Witness ==
    /\ response = "422"
    /\ pc = (0 :> "unsubmitted")
    /\ validation_store = <<>> /\ sse_queues = <<>> /\ db = <<>> /\ loops = <<>>

\* the run task is about to save and report the snapshot of a failed fetch
FetchFailureYielded ==
    /\ 0 \in DOMAIN loops
    /\ pc[0] = "upsert"
    /\ loops[0].values.status = "failed"
    /\ FetchError \in SeqToSet(loops[0].values.errors)

\* C32: when the fetch has failed and the save of that snapshot returns, the status
\* is failed and the error list is the fetch error in the cache and in the store,
\* and the queue receives exactly an error event whose message is the fetch error
\* followed by done with status failed; no hitl event is ever enqueued for a run
\* whose stored errors hold the fetch error.
C32_FetchFailureReported ==
    /\ [][(FetchFailureYielded /\ pc'[0] # "upsert" /\ dbFailures' = dbFailures
             /\ restarts' = restarts)
          => /\ validation_store'[Vid].status = "failed"
             /\ validation_store'[Vid].errors = <<FetchError>>
             /\ db'[Vid].status = "failed"
             /\ db'[Vid].errors = <<FetchError>>
             /\ history' = history \o <<ErrorEventOf(<<FetchError>>), DoneEvent("failed")>>
             /\ sse_queues'[Vid] = sse_queues[Vid]
                                     \o <<ErrorEventOf(<<FetchError>>), DoneEvent("failed")>>
             /\ pc'[0] = "finished"]_vars
    /\ []((Vid \in DOMAIN db /\ FetchError \in SeqToSet(db[Vid].errors))
            => Count("hitl") = 0)

\* the failed fetch has been reported: error with the fetch message, then done
C32_Witness ==
    /\ pc[0] = "finished"
    /\ Len(history) = 3
    /\ history[2] = ErrorEventOf(<<FetchError>>)
    /\ history[3] = DoneEvent("failed")
    /\ Vid \in DOMAIN db /\ db[Vid].status = "failed" /\ db[Vid].errors = <<FetchError>>

\* the stream of a graph invocation has nothing more to run or to yield
Exhausted(loop) == loop.next \in {"__end__", "__interrupt__"}

\* C33: the run task iterates over the state stream to its end: when it stops
\* iterating after a snapshot with status awaiting_human, without an exception,
\* the stream is exhausted.
C33_RunTaskExhaustsStream ==
    [][(/\ 0 \in DOMAIN loops
        /\ loops[0].values.status = "awaiting_human"
        /\ pc[0] \in {"upsert", "stream"}
        /\ pc'[0] \in {"suspended", "finished"})
       => Exhausted(loops[0])]_vars

\* C34: a run whose stream interrupts at the human gate is suspended and not failed,
\* also when the stream would let the GraphInterrupt out: once the hitl event is
\* enqueued and until a decide is accepted, it is the only hitl event, no error and
\* no done event is enqueued, the run task is not in its except clause and has not
\* ended, and the stored status is awaiting_human, not failed.
C34_InterruptIsSuspension ==
    (Count("hitl") >= 1 /\ reqs = <<>> /\ restarts = 0)
      => /\ Count("hitl") = 1
         /\ Count("error") = 0
         /\ Count("done") = 0
         /\ pc[0] \notin {"except_upsert", "crashed", "finished"}
         /\ validation_store[Vid].status = "awaiting_human"
         /\ db[Vid].status = "awaiting_human"

\* the run task has left its stream suspended before the human gate, where
\* interrupt() fires, with the hitl event enqueued
C34_Witness ==
    /\ pc[0] = "suspended"
    /\ Count("hitl") = 1
    /\ checkpointer[Vid].next = "human_gate"
    /\ 0 \notin DOMAIN loops
    /\ reqs = <<>>

\* every finding of the state or row r has a score from 0 to 1
ScoresInRange(r) ==
    \A k \in 1..Len(r.findings) :
        r.findings[k].score >= 0 /\ r.findings[k].score <= 1000

\* C35: every finding of the cached snapshot, of the stored row, of the checkpoint
\* and of the state and the returned branches of a graph invocation has a score from
\* 0 to 1, and a check step whose evaluator answers a score above 1 or below 0
\* returns the finding with passed false and score 0 for its agent.
C35_ScoresInRange ==
    /\ Vid \in DOMAIN validation_store => ScoresInRange(validation_store[Vid])
    /\ Vid \in DOMAIN db => ScoresInRange(db[Vid])
    /\ Vid \in DOMAIN checkpointer => ScoresInRange(checkpointer[Vid].values)
    /\ \A t \in DOMAIN loops :
          /\ ScoresInRange(loops[t].values)
          /\ \A a \in DOMAIN loops[t].branches : ScoresInRange(loops[t].branches[a])
          /\ loops[t].next = "agents"
               => \A a \in SeqToSet(dispatch_agents(loops[t].values)) \ {"empty_tag"},
                     o \in {"high", "negative"} :
                     RunAgentNode(a, SendState(loops[t]), o).update.findings
                       = <<AgentFinding(a, FALSE, 0)>>

\* the stored state of a fetched page holds the finding of a step that failed in its
\* try block next to a finding with the score the evaluator answered
C35_Witness ==
    /\ Vid \in DOMAIN db
    /\ db[Vid].status = "awaiting_human"
    /\ \E k \in 1..Len(db[Vid].findings) :
          /\ db[Vid].findings[k].agent = "metadata"
          /\ ~db[Vid].findings[k].passed /\ db[Vid].findings[k].score = 0
    /\ \E k \in 1..Len(db[Vid].findings) : db[Vid].findings[k].score = 900

\* the number of status events enqueued so far that announce running
RunningCount ==
    Cardinality({i \in 1..Len(history) : history[i] = StatusEvent("running")})

\* C36: the status event that announces running is enqueued at most once, and
\* exactly once by the time the run is suspended at the human gate.
C36_RunningAnnouncedOnce ==
    /\ RunningCount <= 1
    /\ pc[0] = "suspended" => RunningCount = 1

\* the events the step enqueues
Enqueued == SubSeq(history', Len(history) + 1, Len(history'))

\* C37: in every step that enqueues a hitl or done event, the row of the run in the
\* durable store then carries the status the event announces: awaiting_human for
\* hitl, and for done the status named in the event, which is failed, approved or
\* rejected.
C37_EventsMatchStoredRow ==
    [][\A i \in 1..Len(Enqueued) :
          /\ Enqueued[i].type = "hitl"
               => Vid \in DOMAIN db' /\ db'[Vid].status = "awaiting_human"
          /\ Enqueued[i].type = "done"
               => /\ Enqueued[i].status \in {"failed", "approved", "rejected"}
                  /\ Vid \in DOMAIN db' /\ db'[Vid].status = Enqueued[i].status]_vars

\* the pipeline tasks that are scheduled or running and have not ended
ActiveTasks ==
    {t \in DOMAIN pc : pc[t] \in {"scheduled", "stream", "upsert", "except_upsert"}}

\* C38: a decide is accepted only after the hitl event of the run has been enqueued
\* and the run task has stopped; at most one pipeline task is active at any time;
\* and once a decide has been accepted every done event in the queue history comes
\* after the hitl event.
C38_DecideAfterSuspension ==
    /\ [][Len(reqs') > Len(reqs)
            => (Count("hitl") >= 1 /\ 0 \notin ActiveTasks)]_vars
    /\ [](Cardinality(ActiveTasks) <= 1)
    /\ [](reqs # <<>>
            => \A i \in 1..Len(history) :
                  history[i].type = "done"
                    => \E j \in 1..(i - 1) : history[j].type = "hitl")

\* the branches the dispatcher is to launch for the run state v
ExpectedBranches(v) ==
    IF v.routing_decision = None
    THEN {"metadata", "editorial", "compliance", "accuracy"}
    ELSE SeqToSet(Get(v.routing_decision).agents_to_run)
           \cap {"metadata", "editorial", "compliance", "accuracy", "empty_tag"}

\* C39: the Sends of the dispatcher name exactly the registered agents listed in
\* agents_to_run, each once, or the four standard agents when the routing decision
\* is missing; only those branches run, and after the fan-in the findings are one
\* per such agent.
C39_DispatchExactlyRouted ==
    \A t \in DOMAIN loops :
        LET v == loops[t].values
        IN  /\ SeqToSet(dispatch_agents(v)) = ExpectedBranches(v)
            /\ Len(dispatch_agents(v)) = Cardinality(ExpectedBranches(v))
            /\ DOMAIN loops[t].branches \subseteq ExpectedBranches(v)
            /\ loops[t].next \notin {"fetch_content", "triage", "agents"}
                 => /\ {v.findings[k].agent : k \in 1..Len(v.findings)}
                         = ExpectedBranches(v)
                    /\ Len(v.findings) = Cardinality(ExpectedBranches(v))

\* the fan-in has joined the single branch of a decision that lists empty_tag and an
\* unregistered name
C39_Witness ==
    /\ 0 \in DOMAIN loops
    /\ loops[0].next = "aggregate"
    /\ loops[0].values.routing_decision # None
    /\ SeqToSet(Get(loops[0].values.routing_decision).agents_to_run)
         = {"empty_tag", "judge"}
    /\ Len(loops[0].values.findings) = 1
    /\ loops[0].values.findings[1].agent = "empty_tag"

====
